---------------------------- MODULE Spec2Model ----------------------------
(* A model of the DNS client `who`: the resource-record decoder of        *)
(* src/dns/record.rs (parse_record, Record::deserialize) and the run of   *)
(* main in src/main.rs.  Byte strings are sequences of 0..255; a String   *)
(* is the sequence of its (ASCII) bytes, so "a.b" is <<97, 46, 98>>.      *)
(* The helpers of dns::parse_utils, the type tables of dns, the Message   *)
(* codec and the validation module are modelled from the specification.   *)
EXTENDS Integers, Sequences, FiniteSets, TLC

VARIABLES
    \* ---- a Buffer under repeated Record::deserialize calls (record.rs)
    buffer,          \* Buffer { current, source }
    rd_in,           \* the Buffer as it was when the last call started
    rd_out,          \* what the last Record::deserialize call returned
    calls,           \* number of Record::deserialize calls made so far
    \* ---- one run of main (main.rs)
    pc,              \* position of main
    cli,             \* the parsed command line (Cli)
    overflow_checks, \* build profile: TRUE = u16 overflow panics, FALSE = wraps
    m,               \* the query Message built from the command line
    sock,            \* "unbound" | "bound"
    wire,            \* the serialized query bytes
    recv_buffer,     \* the receive buffer [u8; 1024]
    msg_length,      \* what recv_from returned
    decoded,         \* outcome of Message::deserialize
    message,         \* the decoded response Message
    viewport,        \* Viewport::Inline(viewport_size) and the layout lengths
    raw_mode,        \* terminal raw mode is on
    drawn,           \* records rendered by terminal.draw
    stdout,          \* records printed in raw-records mode
    stderr,          \* messages printed by eprintln
    exit,            \* how the process ended
    steps            \* the steps of the run, in the order they were attempted

rvars == <<buffer, rd_in, rd_out, calls>>
mvars == <<pc, cli, overflow_checks, m, sock, wire, recv_buffer, msg_length,
           decoded, message, viewport, raw_mode, drawn, stdout, stderr, exit, steps>>
vars == <<buffer, rd_in, rd_out, calls, pc, cli, overflow_checks, m, sock, wire,
          recv_buffer, msg_length, decoded, message, viewport, raw_mode, drawn,
          stdout, stderr, exit, steps>>

-----------------------------------------------------------------------------
(* Byte strings and slices.                                                *)

Drop(b, n) == SubSeq(b, n + 1, Len(b))
Take(b, n) == SubSeq(b, 1, n)

Repeat(x, n) == [i \in 1..n |-> x]
Zeros(n) == Repeat(0, n)

\* labels joined with '.' (byte 46)
RECURSIVE JoinDot(_)
JoinDot(labels) ==
    IF labels = <<>> THEN <<>>
    ELSE IF Len(labels) = 1 THEN labels[1]
    ELSE labels[1] \o <<46>> \o JoinDot(Tail(labels))

Ok(rest, val) == [ok |-> TRUE, rest |-> rest, val |-> val]
Err(kind)     == [ok |-> FALSE, kind |-> kind]

\* the ? operator: a failure is returned at once, a success goes on to F
Try(r, F(_)) == IF r.ok THEN F(r) ELSE r

\* nom::number::complete::be_u16 / be_u32
be_u16(b) ==
    IF Len(b) < 2 THEN Err("TruncatedInput")
    ELSE Ok(Drop(b, 2), b[1] * 256 + b[2])

be_u32(b) ==
    IF Len(b) < 4 THEN Err("TruncatedInput")
    ELSE Ok(Drop(b, 4), ((b[1] * 256 + b[2]) * 256 + b[3]) * 256 + b[4])

-----------------------------------------------------------------------------
(* Type tables (dns::QType, dns::QClass).                                  *)

QTypeOfCode(c) ==
    CASE c = 1  -> "A"
      [] c = 2  -> "NS"
      [] c = 5  -> "CNAME"
      [] c = 6  -> "SOA"
      [] c = 15 -> "MX"
      [] c = 16 -> "TXT"
      [] c = 28 -> "AAAA"
      [] c = 12 -> "PTR"
      [] OTHER  -> "none"

CodeOfQType(q) ==
    CASE q = "A" -> 1 [] q = "NS" -> 2 [] q = "CNAME" -> 5 [] q = "SOA" -> 6
      [] q = "MX" -> 15 [] q = "TXT" -> 16 [] q = "AAAA" -> 28 [] q = "PTR" -> 12

\* the QTypes that parse_record has an RDATA arm for
HandledQTypes == {"A", "CNAME", "TXT", "AAAA", "NS", "MX", "SOA"}

QClassOfCode(c) == IF c = 1 THEN "IN" ELSE "none"

qtype_of(r) ==
    IF QTypeOfCode(r.val) = "none" THEN Err("UnsupportedCode")
    ELSE Ok(r.rest, QTypeOfCode(r.val))

parse_qtype(b) == Try(be_u16(b), qtype_of)

qclass_of(r) ==
    IF QClassOfCode(r.val) = "none" THEN Err("UnsupportedCode")
    ELSE Ok(r.rest, QClassOfCode(r.val))

parse_qclass(b) == Try(be_u16(b), qclass_of)

\* the TTL as a Duration of whole seconds
parse_ttl(b) == be_u32(b)

parse_rdlength(b) == be_u16(b)

parse_ipv4(b) ==
    IF Len(b) < 4 THEN Err("TruncatedInput") ELSE Ok(Drop(b, 4), Take(b, 4))

parse_ipv6(b) ==
    IF Len(b) < 16 THEN Err("TruncatedInput") ELSE Ok(Drop(b, 16), Take(b, 16))

take_token(b, n) ==
    IF Len(b) < n THEN Err("TruncatedInput") ELSE Ok(Drop(b, n), Take(b, n))

-----------------------------------------------------------------------------
(* Name codec (dns::parse_utils::parse_names).  t is the caller's Vec: the *)
(* absolute offsets already visited through pointer indirection.  The      *)
(* result carries t as the call leaves it.                                 *)

InSeq(x, s) == \E i \in 1..Len(s) : s[i] = x

NameOk(rest, labels, t) == [ok |-> TRUE, rest |-> rest, labels |-> labels, t |-> t]

RECURSIVE read_labels(_, _, _, _)
read_labels(view, source, t, acc) ==
    IF Len(view) = 0 THEN Err("TruncatedInput")
    ELSE LET b == view[1] IN
      IF b = 0 THEN NameOk(Drop(view, 1), acc, t)
      ELSE IF b < 64 THEN
          IF Len(view) < 1 + b THEN Err("TruncatedInput")
          ELSE read_labels(Drop(view, 1 + b), source, t,
                           Append(acc, SubSeq(view, 2, 1 + b)))
      ELSE IF b >= 192 THEN
          IF Len(view) < 2 THEN Err("TruncatedInput")
          ELSE LET off == (b % 64) * 256 + view[2] IN
            IF InSeq(off, t) \/ off >= Len(source) THEN Err("MalformedName")
            ELSE Try(read_labels(Drop(source, off), source, Append(t, off), acc),
                     LAMBDA inner : NameOk(Drop(view, 2), inner.labels, inner.t))
      ELSE Err("MalformedName")

name_of(r) ==
    IF Len(JoinDot(r.labels)) > 255 THEN Err("MalformedName")
    ELSE [ok |-> TRUE, rest |-> r.rest, val |-> JoinDot(r.labels), t |-> r.t]

parse_names(b, source, t) == Try(read_labels(b, source, t, <<>>), name_of)

-----------------------------------------------------------------------------
(* Record codec (src/dns/record.rs).                                       *)

\* unimplemented!(): the thread panics, nothing is returned
Panic == [ok |-> FALSE, kind |-> "panic"]

Record(name, qtype, qclass, ttl, rd_length, rdata) ==
    [name |-> name, qtype |-> qtype, qclass |-> qclass, ttl |-> ttl,
     rd_length |-> rd_length, rdata |-> rdata]

\* tuple((be_u32, be_u32, be_u32, be_u32, be_u32)) of the SOA arm
soa_numbers(b) ==
    Try(be_u32(b),      LAMBDA a :
    Try(be_u32(a.rest), LAMBDA c :
    Try(be_u32(c.rest), LAMBDA d :
    Try(be_u32(d.rest), LAMBDA e :
    Try(be_u32(e.rest), LAMBDA f :
        Ok(f.rest, <<a.val, c.val, d.val, e.val, f.val>>))))))

Fields(q, c, t, l) == [qtype |-> q, qclass |-> c, ttl |-> t, rd_length |-> l]

\* the TTL and rd_length read in the wrong order
fields_swapped(b) ==
    Try(parse_qtype(b),        LAMBDA q :
    Try(parse_qclass(q.rest),  LAMBDA c :
    Try(parse_rdlength(c.rest), LAMBDA l :
    Try(parse_ttl(l.rest),     LAMBDA t :
        Ok(t.rest, Fields(q.val, c.val, t.val, l.val))))))

\* tuple((parse_qtype, parse_qclass, parse_ttl, parse_rdlength))(buffer)
record_fields(b) ==
    Try(parse_qtype(b),        LAMBDA q :
    Try(parse_qclass(q.rest),  LAMBDA c :
    Try(parse_ttl(c.rest),     LAMBDA t :
    Try(parse_rdlength(t.rest), LAMBDA l :
        Ok(l.rest, Fields(q.val, c.val, t.val, l.val))))))

\* the match on qtype: b is the cursor after rd_length, t the Vec that the
\* owner-name decode has filled
parse_rdata(qtype, b, source, t, rd_length) ==
    CASE qtype = "A" ->
           Try(parse_ipv4(b), LAMBDA r : Ok(r.rest, [tag |-> "A", address |-> r.val]))
      [] qtype = "CNAME" ->
           Try(parse_names(b, source, <<>>),
               LAMBDA r : Ok(r.rest, [tag |-> "CNAME", name |-> r.val]))
      [] qtype = "TXT" ->
           Try(take_token(b, rd_length),
               LAMBDA r : Ok(r.rest, [tag |-> "TXT", txt |-> r.val]))
      [] qtype = "AAAA" ->
           Try(parse_ipv6(b), LAMBDA r : Ok(r.rest, [tag |-> "AAAA", address |-> r.val]))
      [] qtype = "NS" ->
           Try(parse_names(b, source, t),
               LAMBDA r : Ok(r.rest, [tag |-> "NS", name |-> r.val]))
      [] qtype = "MX" ->
           Try(be_u16(b), LAMBDA p :
           Try(parse_names(p.rest, source, t), LAMBDA r :
               Ok(r.rest, [tag |-> "MX", preference |-> p.val, exchange |-> r.val])))
      [] qtype = "SOA" ->
           Try(parse_names(b, source, t),          LAMBDA mn :
           Try(parse_names(mn.rest, source, mn.t), LAMBDA rn :
           Try(soa_numbers(rn.rest),               LAMBDA n :
               Ok(n.rest, [tag |-> "SOA", mname |-> mn.val, rname |-> rn.val,
                           serial |-> n.val[1], refresh |-> n.val[2],
                           retry |-> n.val[3], expire |-> n.val[4],
                           minimum |-> n.val[5]]))))
      [] OTHER -> Panic

parse_record(b, source) ==
    Try(parse_names(b, source, <<>>), LAMBDA n :
    Try(record_fields(n.rest),        LAMBDA f :
    Try(parse_rdata(f.val.qtype, f.rest, source, n.t, f.val.rd_length), LAMBDA d :
        Ok(d.rest, Record(n.val, f.val.qtype, f.val.qclass, f.val.ttl,
                          f.val.rd_length, d.val)))))

\* Record::deserialize on a Buffer: [buffer, out], out one of
\*   [tag |-> "ok", record], [tag |-> "err", kind], [tag |-> "panic"]
Outcome(buf, r, on_err) ==
    IF r.ok THEN [buffer |-> [buf EXCEPT !.current = r.rest],
                  out |-> [tag |-> "ok", record |-> r.val]]
    ELSE IF r.kind = "panic" THEN [buffer |-> buf, out |-> [tag |-> "panic"]]
    ELSE [buffer |-> on_err, out |-> [tag |-> "err", kind |-> r.kind]]

\* the cursor is advanced although the decode failed
deserialize_moves_cursor_on_error(buf) ==
    Outcome(buf, parse_record(buf.current, buf.source),
            [buf EXCEPT !.current = IF Len(buf.current) > 0
                                    THEN Drop(buf.current, 1) ELSE buf.current])

Record_deserialize(buf) ==
    Outcome(buf, parse_record(buf.current, buf.source), buf)

-----------------------------------------------------------------------------
(* Wire encoders, used to build the inputs.                                *)

U16(n) == <<n \div 256, n % 256>>
U32(n) == <<n \div 16777216, (n \div 65536) % 256, (n \div 256) % 256, n % 256>>

\* an uncompressed name: length-prefixed labels ended by a zero byte
RECURSIVE EncName(_)
EncName(labels) ==
    IF labels = <<>> THEN <<0>>
    ELSE <<Len(labels[1])>> \o labels[1] \o EncName(Tail(labels))

\* a compression pointer to an absolute offset
Ptr(off) == <<192 + off \div 256, off % 256>>

RecordBytes(owner, tcode, ccode, ttl, rdlen, rd) ==
    owner \o U16(tcode) \o U16(ccode) \o U32(ttl) \o U16(rdlen) \o rd

GoogleLabels == << <<103, 111, 111, 103, 108, 101>>, <<99, 111, 109>> >>

-----------------------------------------------------------------------------
(* The Buffer under test: every input is  prefix \o record \o tail  with   *)
(* source the whole of it and current starting at the record.             *)

MaxCalls == 2

\* owner names that use no compression
PlainOwners == {GoogleLabels, << <<99>> >>}

Owners == {EncName(l) : l \in PlainOwners} \cup {Ptr(0)}

TypeCodes == {1, 2, 5, 6, 12, 15, 16, 28, 255}

Ttls == {3600, 16909060}

SoaNumbers == U32(1) \o U32(2) \o U32(3) \o U32(4) \o U32(5)

RDatas ==
    { <<1, 2, 3, 4>>,
      <<1, 2, 3, 4, 5, 6>>,
      <<32, 1, 13, 184, 0, 0, 0, 0, 0, 0, 0, 0, 0, 0, 0, 1>>,
      Ptr(0),
      EncName(<< <<100>> >>),
      <<1, 100>> \o Ptr(0),
      U16(10) \o Ptr(0),
      U16(10) \o EncName(<< <<100>> >>),
      Ptr(0) \o Ptr(0) \o SoaNumbers,
      EncName(<< <<100>> >>) \o Ptr(0) \o SoaNumbers }

\* the declared rd_length: the bytes present, or two more
RdLens(rd) == {Len(rd), Len(rd) + 2}

Prefixes == {<<>>, EncName(<< <<97>>, <<98>> >>)}

Tails == { <<>>,
           RecordBytes(EncName(<< <<99>> >>), 1, 1, 60, 4, <<9, 9, 9, 9>>),
           RecordBytes(EncName(<< <<99>> >>), 1, 1, 60, 4, <<9, 9>>) }

RecordInputs ==
    { RecordBytes(o, tc, 1, ttl, rl[2], rl[1]) :
        o \in Owners, tc \in TypeCodes, ttl \in Ttls,
        rl \in UNION {{<<rd, n>> : n \in RdLens(rd)} : rd \in RDatas} }
    \cup { RecordBytes(EncName(GoogleLabels), 1, 3, 3600, 4, <<1, 2, 3, 4>>) }

NoRun ==
    /\ pc = "idle" /\ cli = [command |-> "none", domain |-> <<>>, raw |-> FALSE]
    /\ overflow_checks = FALSE /\ m = [tag |-> "none"] /\ sock = "unbound"
    /\ wire = <<>> /\ recv_buffer = <<>> /\ msg_length = 0
    /\ decoded = "none" /\ message = [tag |-> "none"] /\ viewport = [tag |-> "none"]
    /\ raw_mode = FALSE /\ drawn = [tag |-> "none"] /\ stdout = <<>> /\ stderr = <<>>
    /\ exit = "running" /\ steps = <<>>

InitRecord ==
    /\ \E pre \in Prefixes, rec \in RecordInputs, tail \in Tails :
          buffer = [current |-> rec \o tail, source |-> pre \o rec \o tail]
    /\ rd_in = buffer
    /\ rd_out = [tag |-> "none"]
    /\ calls = 0
    /\ NoRun

\* one Record::deserialize(&mut buffer) call
RecordDeserialize ==
    /\ calls < MaxCalls
    /\ rd_out.tag # "panic"
    /\ buffer' = Record_deserialize(buffer).buffer
    /\ rd_out' = Record_deserialize(buffer).out
    /\ rd_in' = buffer
    /\ calls' = calls + 1
    /\ UNCHANGED mvars

NextRecord == RecordDeserialize

SpecRecord == InitRecord /\ [][NextRecord]_vars

-----------------------------------------------------------------------------
(* Layout oracles for the properties: computed from the wire bytes alone,  *)
(* without the decoder.                                                    *)

IsPrefix(p, b) == Len(p) <= Len(b) /\ SubSeq(b, 1, Len(p)) = p

\* the bytes a name occupies where it stands: up to and including its zero
\* byte or its first pointer; -1 when there is no such name
RECURSIVE WireNameLen(_)
WireNameLen(b) ==
    IF b = <<>> THEN -1
    ELSE IF b[1] = 0 THEN 1
    ELSE IF b[1] >= 192 THEN (IF Len(b) < 2 THEN -1 ELSE 2)
    ELSE IF b[1] >= 64 \/ Len(b) < 1 + b[1] THEN -1
    ELSE IF WireNameLen(Drop(b, 1 + b[1])) < 0 THEN -1
    ELSE 1 + b[1] + WireNameLen(Drop(b, 1 + b[1]))

\* the record at the head of the last call's cursor
InOwnerLen  == WireNameLen(rd_in.current)
InTypeCode  == rd_in.current[InOwnerLen + 1] * 256 + rd_in.current[InOwnerLen + 2]
InHasFields == InOwnerLen >= 0 /\ Len(rd_in.current) >= InOwnerLen + 10
InRData     == Drop(rd_in.current, InOwnerLen + 10)

\* the bytes the RDATA layout of a type occupies
RDataWireLen(qtype, rd, rd_length) ==
    CASE qtype = "A"     -> 4
      [] qtype = "AAAA"  -> 16
      [] qtype = "TXT"   -> rd_length
      [] qtype \in {"CNAME", "NS"} -> WireNameLen(rd)
      [] qtype = "MX"    -> 2 + WireNameLen(Drop(rd, 2))
      [] qtype = "SOA"   -> WireNameLen(rd) + WireNameLen(Drop(rd, WireNameLen(rd))) + 20

\* the cursor with the record's type code replaced
WithTypeCode(b, code) ==
    Take(b, WireNameLen(b)) \o U16(code) \o Drop(b, WireNameLen(b) + 2)

GoogleTestBytes ==
    <<6, 103, 111, 111, 103, 108, 101, 3, 99, 111, 109, 0, 0, 1,
      0, 1, 0, 0, 14, 16, 0, 4, 1, 2, 3, 4>>

-----------------------------------------------------------------------------
(* Properties of the record decoder, checked under SpecRecord.             *)

\* C1: a buffer that starts with an uncompressed name, type 1 (A), class 1
\* (IN), a big-endian TTL, rd_length 4 and 4 address bytes decodes to
\* Record{name joined with '.', A, IN, ttl, 4, A(the 4 bytes)}, the fields read
\* in that order and the cursor left after the address; the bytes of the unit
\* test decode to Record{google.com, A, IN, 3600, 4, A(1.2.3.4)}.
C1_PlainARecordDecodes ==
    calls >= 1 =>
      /\ \A labels \in PlainOwners, ttl \in Ttls :
           LET head == EncName(labels) \o U16(1) \o U16(1) \o U32(ttl) \o U16(4) IN
           (IsPrefix(head, rd_in.current) /\ Len(rd_in.current) >= Len(head) + 4) =>
              /\ rd_out.tag = "ok"
              /\ rd_out.record =
                   Record(JoinDot(labels), "A", "IN", ttl, 4,
                          [tag |-> "A",
                           address |-> SubSeq(rd_in.current, Len(head) + 1, Len(head) + 4)])
              /\ buffer.current = Drop(rd_in.current, Len(head) + 4)
      /\ rd_in.current = GoogleTestBytes =>
              /\ rd_out.tag = "ok"
              /\ rd_out.record =
                   [name |-> <<103, 111, 111, 103, 108, 101, 46, 99, 111, 109>>,
                    qtype |-> "A", qclass |-> "IN", ttl |-> 3600, rd_length |-> 4,
                    rdata |-> [tag |-> "A", address |-> <<1, 2, 3, 4>>]]

C1_Witness ==
    /\ calls = 1
    /\ rd_in = [current |-> GoogleTestBytes, source |-> GoogleTestBytes]
    /\ rd_out.tag = "ok"
    /\ rd_out.record.ttl = 3600
    /\ buffer.current = <<>>

\* C2: every Record returned has rd_length equal to the number of bytes
\* consumed between the end of the rd_length field and the returned cursor
\* (a record whose RDATA layout consumes another number of bytes is refused).
C2_RdLengthIsBytesConsumed ==
    (calls >= 1 /\ rd_out.tag = "ok") =>
        rd_out.record.rd_length = Len(InRData) - Len(buffer.current)

\* C3: decoding never panics; a record whose type code is a recognized QType
\* without an RDATA arm is refused with UnsupportedCode.
C3_UnhandledTypeIsUnsupportedCode ==
    calls >= 1 =>
      /\ rd_out.tag # "panic"
      /\ (/\ parse_names(rd_in.current, rd_in.source, <<>>).ok
          /\ record_fields(Drop(rd_in.current, InOwnerLen)).ok
          /\ QTypeOfCode(InTypeCode) \notin HandledQTypes)
         => (rd_out.tag = "err" /\ rd_out.kind = "UnsupportedCode")

\* C7: every RDATA name is decoded from an empty bookkeeping state: it is the
\* name a fresh decode at the RDATA position yields.  An NS record decodes to
\* the rdata name of the CNAME record with the same bytes, and MX / SOA names
\* are those of fresh decodes at their positions.
C7_RDataNameIsFreshDecode ==
    (/\ calls >= 1
     /\ InHasFields
     /\ parse_names(rd_in.current, rd_in.source, <<>>).ok
     /\ record_fields(Drop(rd_in.current, InOwnerLen)).ok) =>
      LET pre   == Take(rd_in.source, Len(rd_in.source) - Len(rd_in.current))
          asCN  == parse_record(WithTypeCode(rd_in.current, 5),
                                pre \o WithTypeCode(rd_in.current, 5))
          fresh == parse_names(InRData, rd_in.source, <<>>)
          exch  == parse_names(Drop(InRData, 2), rd_in.source, <<>>)
          rname == parse_names(fresh.rest, rd_in.source, <<>>)
      IN
      /\ (InTypeCode = 2 /\ asCN.ok) =>
            (rd_out.tag = "ok" /\ rd_out.record.rdata.name = asCN.val.rdata.name)
      /\ (InTypeCode \in {2, 5} /\ fresh.ok) =>
            (rd_out.tag = "ok" /\ rd_out.record.rdata.name = fresh.val)
      /\ (InTypeCode = 15 /\ Len(InRData) >= 2 /\ exch.ok) =>
            (rd_out.tag = "ok" /\ rd_out.record.rdata.exchange = exch.val)
      /\ (InTypeCode = 6 /\ fresh.ok /\ rname.ok /\ Len(rname.rest) >= 20) =>
            (/\ rd_out.tag = "ok"
             /\ rd_out.record.rdata.mname = fresh.val
             /\ rd_out.record.rdata.rname = rname.val)

\* C8: Record::deserialize never changes buffer.source; on success it sets
\* buffer.current to the suffix of the old current that starts right after the
\* record's bytes; on failure the Buffer is exactly what it was.
C8_DeserializeFrame ==
    calls >= 1 =>
      /\ buffer.source = rd_in.source
      /\ rd_out.tag # "ok" => buffer = rd_in
      /\ rd_out.tag = "ok" =>
           buffer.current =
             Drop(rd_in.current,
                  InOwnerLen + 10 + RDataWireLen(rd_out.record.qtype, InRData,
                                                 rd_out.record.rd_length))

\* a success and then a failure on the same Buffer
C8_Witness ==
    /\ calls = 2
    /\ rd_out.tag = "err"
    /\ buffer.current # buffer.source
    /\ Len(buffer.current) > 0
    /\ Len(buffer.current) < Len(buffer.source)

-----------------------------------------------------------------------------
(* Domain validation (main.rs valid / validate, over validation::         *)
(* check_length and validation::check_token_length).                      *)

\* the tokens of a name: its bytes split at '.' (byte 46)
SplitDot(name) ==
    LET cuts == {i \in 1..Len(name) : name[i] = 46} \cup {0, Len(name) + 1}
        nth(k) == CHOOSE i \in cuts : Cardinality({j \in cuts : j < i}) = k - 1
    IN [k \in 1..(Cardinality(cuts) - 1) |-> SubSeq(name, nth(k) + 1, nth(k + 1) - 1)]

check_length(address) == Len(address) <= 255

\* (value, result): the first token over 63 bytes and false, or the address
\* and true
check_token_length(address) ==
    LET toks == SplitDot(address)
        bad  == {i \in 1..Len(toks) : Len(toks[i]) > 63}
    IN IF bad = {} THEN <<address, TRUE>>
       ELSE <<toks[CHOOSE i \in bad : \A j \in bad : i <= j], FALSE>>

\* the total length is not checked
validate_tokens_only(address) ==
    IF ~check_token_length(address)[2]
    THEN [ok |-> FALSE, msg |-> <<"Token exceeds 63", check_token_length(address)[1]>>]
    ELSE [ok |-> TRUE, val |-> check_token_length(address)[1]]

validate(address) ==
    IF ~check_length(address)
    THEN [ok |-> FALSE, msg |-> <<"Address exceeds 255", address>>]
    ELSE IF ~check_token_length(address)[2]
    THEN [ok |-> FALSE, msg |-> <<"Token exceeds 63", check_token_length(address)[1]>>]
    ELSE [ok |-> TRUE, val |-> check_token_length(address)[1]]

-----------------------------------------------------------------------------
(* Message codec (dns::message, dns::header, dns::question).               *)

Header(id, qd, an) ==
    [id |-> id, qr |-> 0, opcode |-> 0, aa |-> 0, tc |-> 0, rd |-> 1, ra |-> 0,
     z |-> 0, rcode |-> 0, qd_count |-> qd, an_count |-> an, ns_count |-> 0,
     ar_count |-> 0]

\* the query builders Message::txt, ::cname, ::a, ::aaaa, ::ns, ::mx, ::soa
QueryMessage(qtype, name, id) ==
    [tag |-> "msg", header |-> Header(id, 1, 0),
     question |-> [qname |-> name, qtype |-> qtype, qclass |-> "IN"],
     records |-> <<>>]

FlagBits(h) ==
    h.qr * 32768 + h.opcode * 2048 + h.aa * 1024 + h.tc * 512 + h.rd * 256
    + h.ra * 128 + h.z * 16 + h.rcode

HeaderBytes(h) ==
    U16(h.id) \o U16(FlagBits(h)) \o U16(h.qd_count) \o U16(h.an_count)
    \o U16(h.ns_count) \o U16(h.ar_count)

\* Message::serialize: header and question, the name uncompressed
Message_serialize(msg) ==
    IF ~validate(msg.question.qname).ok THEN Err("MalformedName")
    ELSE Ok(<<>>, HeaderBytes(msg.header)
                  \o EncName(SplitDot(msg.question.qname))
                  \o U16(CodeOfQType(msg.question.qtype)) \o U16(1))

parse_header(b) ==
    IF Len(b) < 12 THEN Err("TruncatedInput")
    ELSE Ok(Drop(b, 12),
            [id |-> b[1] * 256 + b[2],
             qr |-> b[3] \div 128, opcode |-> (b[3] \div 8) % 16,
             aa |-> (b[3] \div 4) % 2, tc |-> (b[3] \div 2) % 2, rd |-> b[3] % 2,
             ra |-> b[4] \div 128, z |-> (b[4] \div 16) % 8, rcode |-> b[4] % 16,
             qd_count |-> b[5] * 256 + b[6], an_count |-> b[7] * 256 + b[8],
             ns_count |-> b[9] * 256 + b[10], ar_count |-> b[11] * 256 + b[12]])

parse_question(b, source) ==
    Try(parse_names(b, source, <<>>), LAMBDA n :
    Try(parse_qtype(n.rest),          LAMBDA q :
    Try(parse_qclass(q.rest),         LAMBDA c :
        Ok(c.rest, [qname |-> n.val, qtype |-> q.val, qclass |-> c.val]))))

\* n times Record::deserialize, in wire order
RECURSIVE parse_records(_, _, _)
records_step(r, n, acc) ==
    IF r.out.tag = "ok"
    THEN parse_records(r.buffer, n - 1, Append(acc, r.out.record))
    ELSE IF r.out.tag = "panic" THEN Panic
    ELSE Err(r.out.kind)

parse_records(buf, n, acc) ==
    IF n = 0 THEN Ok(buf.current, acc)
    ELSE records_step(Record_deserialize(buf), n, acc)

\* Message::deserialize on Buffer { current: bytes, source: bytes }
Message_deserialize(bytes) ==
    Try(parse_header(bytes),             LAMBDA h :
    Try(parse_question(h.rest, bytes),   LAMBDA q :
    Try(parse_records([current |-> q.rest, source |-> bytes], h.val.an_count, <<>>),
        LAMBDA rs :
        Ok(rs.rest, [tag |-> "msg", header |-> h.val, question |-> q.val,
                     records |-> rs.val]))))

-----------------------------------------------------------------------------
(* Presentation (main.rs setup_terminal, render_app, Display for Record).  *)

TOP_BLOCK_SIZE == 1
HEADER_BLOCK_SIZE == 5
QUESTION_BLOCK_SIZE == 2
MESSAGE_BLOCK_SIZE == 2
STAT_BLOCK_SIZE == 6

\* a u16 addition: [ok, val]; on overflow the build with overflow checks
\* panics and the build without them wraps
AddU16(a, b) == [ok |-> a.ok /\ (a.val + b < 65536 \/ ~overflow_checks),
                 val |-> (a.val + b) % 65536]

U16Val(n) == [ok |-> TRUE, val |-> n]

viewport_size(qd_count, an_count) ==
    AddU16(AddU16(AddU16(AddU16(AddU16(AddU16(U16Val(TOP_BLOCK_SIZE),
        HEADER_BLOCK_SIZE), QUESTION_BLOCK_SIZE), qd_count), MESSAGE_BLOCK_SIZE),
        an_count), STAT_BLOCK_SIZE)

\* the text of an RData (Display for RData, and render_app's string_data)
RDataText(rd) ==
    CASE rd.tag \in {"A", "AAAA"}  -> <<rd.address>>
      [] rd.tag \in {"CNAME", "NS"} -> <<rd.name>>
      [] rd.tag = "TXT" -> <<rd.txt>>
      [] rd.tag = "MX"  -> <<rd.preference, rd.exchange>>
      [] rd.tag = "SOA" -> <<rd.mname, rd.rname, rd.serial, rd.refresh, rd.retry,
                             rd.expire, rd.minimum>>

\* Display for Record: name, ttl seconds, class, type, rdata
RecordLine(r) == <<r.name, r.ttl, r.qclass, r.qtype, RDataText(r.rdata)>>

Lines(records) == [i \in 1..Len(records) |-> RecordLine(records[i])]

-----------------------------------------------------------------------------
(* The inputs of a run: command lines and response datagrams.              *)

Commands == {"txt", "cname", "a", "aaaa", "ns", "mx", "soa"}

\* Message::txt ... Message::soa; no subcommand means Message::a
QTypeOfCommand(c) ==
    CASE c = "txt" -> "TXT" [] c = "cname" -> "CNAME" [] c = "a" -> "A"
      [] c = "aaaa" -> "AAAA" [] c = "ns" -> "NS" [] c = "mx" -> "MX"
      [] c = "soa" -> "SOA" [] c = "none" -> "A"

\* a name of labels of the given lengths, every label made of 'a'
DomainOf(lens) == JoinDot([i \in 1..Len(lens) |-> Repeat(97, lens[i])])

Domains ==
    { DomainOf(<<3, 3>>), DomainOf(<<63>>), DomainOf(<<64>>),
      DomainOf(<<63, 63, 63, 63>>), DomainOf(<<63, 63, 63, 63, 1>>),
      DomainOf(<<63, 63, 63, 64>>) }

Clis ==
    { [command |-> c, has_domain |-> TRUE, domain |-> d, raw |-> r] :
        c \in Commands \cup {"none"}, d \in Domains, r \in BOOLEAN }
    \cup { [command |-> "none", has_domain |-> FALSE, domain |-> <<>>, raw |-> r] :
        r \in BOOLEAN }

QueryIds == {0, 4660}

ResponseHeader(qd, an) ==
    U16(4660) \o <<129, 128>> \o U16(qd) \o U16(an) \o U16(0) \o U16(0)

\* the question "ab.c A IN"; its name stands at offset 12 of the message
QuestionBytes(tcode) == EncName(<< <<97, 98>>, <<99>> >>) \o U16(tcode) \o U16(1)

AnswerA     == RecordBytes(Ptr(12), 1, 1, 300, 4, <<1, 2, 0, 0>>)
AnswerA2    == RecordBytes(Ptr(12), 1, 1, 300, 4, <<5, 6, 7, 8>>)
AnswerCNAME == RecordBytes(Ptr(12), 5, 1, 300, 2, Ptr(12))
AnswerNS    == RecordBytes(EncName(<< <<99>> >>), 2, 1, 300, 2, Ptr(12))
AnswerPTR   == RecordBytes(Ptr(12), 12, 1, 300, 2, Ptr(12))

Responses ==
    { ResponseHeader(1, 1) \o QuestionBytes(1) \o AnswerA,
      ResponseHeader(1, 2) \o QuestionBytes(1) \o AnswerA \o AnswerA2,
      ResponseHeader(1, 0) \o QuestionBytes(1),
      ResponseHeader(65535, 0) \o QuestionBytes(1),
      ResponseHeader(65519, 1) \o QuestionBytes(1) \o AnswerA,
      ResponseHeader(65518, 1) \o QuestionBytes(1) \o AnswerA,
      ResponseHeader(1, 65535) \o QuestionBytes(1) \o AnswerA,
      ResponseHeader(1, 1) \o QuestionBytes(5) \o AnswerCNAME,
      ResponseHeader(1, 1) \o QuestionBytes(2) \o AnswerNS,
      ResponseHeader(1, 1) \o QuestionBytes(12) \o AnswerPTR,
      ResponseHeader(1, 1) \o QuestionBytes(255) \o AnswerA }

\* a datagram is a response, whole or cut short
Datagrams ==
    UNION { {d, Take(d, Len(d) - 2), Take(d, Len(d) - 5), Take(d, 5)} : d \in Responses }

-----------------------------------------------------------------------------
(* The run of main (main.rs lines 73-133).                                 *)

Init ==
    /\ buffer = [current |-> <<>>, source |-> <<>>]
    /\ rd_in = buffer /\ rd_out = [tag |-> "none"] /\ calls = 0
    /\ pc = "start"
    /\ cli \in Clis
    /\ overflow_checks \in BOOLEAN
    /\ m = [tag |-> "none"] /\ sock = "unbound"
    /\ wire = <<>> /\ recv_buffer = <<>> /\ msg_length = 0
    /\ decoded = "none" /\ message = [tag |-> "none"] /\ viewport = [tag |-> "none"]
    /\ raw_mode = FALSE /\ drawn = [tag |-> "none"] /\ stdout = <<>> /\ stderr = <<>>
    /\ exit = "running" /\ steps = <<>>

\* the run ends: main returns, or the process exits or panics
End(how) == pc' = "done" /\ exit' = how

\* lines 76-92: the match on cli.command, valid(domain) and the query builder
Build ==
    /\ pc = "start"
    /\ steps' = Append(steps, "build")
    /\ \/ /\ cli.has_domain /\ validate(cli.domain).ok
          /\ \E id \in QueryIds :
               m' = QueryMessage(QTypeOfCommand(cli.command), validate(cli.domain).val, id)
          /\ pc' = "bind"
          /\ UNCHANGED <<stderr, exit>>
       \/ /\ cli.has_domain /\ ~validate(cli.domain).ok
          /\ stderr' = Append(stderr, validate(cli.domain).msg)
          /\ End("exit(1)")
          /\ UNCHANGED m
       \/ /\ ~cli.has_domain
          /\ stderr' = Append(stderr, <<"You must supply a valid address">>)
          /\ End("exit(1)")
          /\ UNCHANGED m
    /\ UNCHANGED <<rvars, cli, overflow_checks, sock, wire, recv_buffer, msg_length,
                   decoded, message, viewport, raw_mode, drawn, stdout>>

\* lines 94-96: UdpSocket::bind
Bind ==
    /\ pc = "bind"
    /\ steps' = Append(steps, "bind")
    /\ \/ sock' = "bound" /\ pc' = "serialize" /\ UNCHANGED exit
       \/ End("Err: could not bind") /\ UNCHANGED sock
    /\ UNCHANGED <<rvars, cli, overflow_checks, m, wire, recv_buffer, msg_length,
                   decoded, message, viewport, raw_mode, drawn, stdout, stderr>>

\* line 98: m.serialize()
Serialize ==
    /\ pc = "serialize"
    /\ steps' = Append(steps, "serialize")
    /\ IF Message_serialize(m).ok
       THEN wire' = Message_serialize(m).val /\ pc' = "send" /\ UNCHANGED exit
       ELSE End("Err: Failed to serialize request") /\ UNCHANGED wire
    /\ UNCHANGED <<rvars, cli, overflow_checks, m, sock, recv_buffer, msg_length,
                   decoded, message, viewport, raw_mode, drawn, stdout, stderr>>

\* lines 100-102: the zeroed receive buffer and sock.send_to
Send ==
    /\ pc = "send"
    /\ steps' = Append(steps, "send")
    /\ recv_buffer' = Zeros(1024)
    /\ \/ pc' = "recv" /\ UNCHANGED exit
       \/ End("Err: send_to")
    /\ UNCHANGED <<rvars, cli, overflow_checks, m, sock, wire, msg_length,
                   decoded, message, viewport, raw_mode, drawn, stdout, stderr>>

\* a failed receive sends the query again
RecvRetry ==
    /\ pc = "recv"
    /\ steps' = Append(steps, "recv")
    /\ \/ \E d \in Datagrams :
            /\ recv_buffer' = d \o Zeros(1024 - Len(d))
            /\ msg_length' = Len(d)
            /\ pc' = "decode"
       \/ pc' = "send" /\ UNCHANGED <<recv_buffer, msg_length>>
    /\ UNCHANGED <<rvars, cli, overflow_checks, m, sock, wire, exit,
                   decoded, message, viewport, raw_mode, drawn, stdout, stderr>>

\* line 103: sock.recv_from(&mut buffer)
Recv ==
    /\ pc = "recv"
    /\ steps' = Append(steps, "recv")
    /\ \/ \E d \in Datagrams :
            /\ recv_buffer' = d \o Zeros(1024 - Len(d))
            /\ msg_length' = Len(d)
            /\ pc' = "decode"
            /\ UNCHANGED exit
       \/ End("Err: recv_from") /\ UNCHANGED <<recv_buffer, msg_length>>
    /\ UNCHANGED <<rvars, cli, overflow_checks, m, sock, wire,
                   decoded, message, viewport, raw_mode, drawn, stdout, stderr>>

\* a decode failure is swallowed and an empty response is presented
DecodeLenient ==
    /\ pc = "decode"
    /\ steps' = Append(steps, "decode")
    /\ IF Message_deserialize(recv_buffer).ok
       THEN /\ message' = Message_deserialize(recv_buffer).val
            /\ decoded' = "ok" /\ pc' = "present" /\ UNCHANGED exit
       ELSE IF Message_deserialize(recv_buffer).kind = "panic"
       THEN decoded' = "panic" /\ End("panic") /\ UNCHANGED message
       ELSE /\ message' = QueryMessage("A", <<>>, 0)
            /\ decoded' = "err" /\ pc' = "present" /\ UNCHANGED exit
    /\ UNCHANGED <<rvars, cli, overflow_checks, m, sock, wire, recv_buffer, msg_length,
                   viewport, raw_mode, drawn, stdout, stderr>>

\* lines 106-112: Buffer { current: &buffer, source: &buffer } and
\* Message::deserialize(&mut buffer)
Decode ==
    /\ pc = "decode"
    /\ steps' = Append(steps, "decode")
    /\ IF Message_deserialize(recv_buffer).ok
       THEN /\ message' = Message_deserialize(recv_buffer).val
            /\ decoded' = "ok" /\ pc' = "present" /\ UNCHANGED exit
       ELSE IF Message_deserialize(recv_buffer).kind = "panic"
       THEN decoded' = "panic" /\ End("panic") /\ UNCHANGED message
       ELSE /\ decoded' = "err"
            /\ End("Err: Failed to deserialize response") /\ UNCHANGED message
    /\ UNCHANGED <<rvars, cli, overflow_checks, m, sock, wire, recv_buffer, msg_length,
                   viewport, raw_mode, drawn, stdout, stderr>>

\* lines 126-130: raw-records mode prints every record
PrintRecords ==
    /\ pc = "present" /\ cli.raw
    /\ steps' = Append(steps, "print")
    /\ stdout' = Lines(message.records)
    /\ End("ok")
    /\ UNCHANGED <<rvars, cli, overflow_checks, m, sock, wire, recv_buffer, msg_length,
                   decoded, message, viewport, raw_mode, drawn, stderr>>

\* lines 121-122 and 164-182: setup_terminal(qd_count, an_count)
SetupTerminal ==
    /\ pc = "present" /\ ~cli.raw
    /\ steps' = Append(steps, "setup")
    /\ \/ /\ ~viewport_size(message.header.qd_count, message.header.an_count).ok
          /\ End("panic") /\ UNCHANGED <<raw_mode, viewport>>
       \/ /\ viewport_size(message.header.qd_count, message.header.an_count).ok
          /\ End("Err: setup failed") /\ UNCHANGED <<raw_mode, viewport>>
       \/ /\ viewport_size(message.header.qd_count, message.header.an_count).ok
          /\ raw_mode' = TRUE
          /\ End("Err: setup failed") /\ UNCHANGED viewport
       \/ /\ viewport_size(message.header.qd_count, message.header.an_count).ok
          /\ raw_mode' = TRUE
          /\ viewport' = [tag |-> "inline", size |->
                viewport_size(message.header.qd_count, message.header.an_count).val]
          /\ pc' = "draw" /\ UNCHANGED exit
    /\ UNCHANGED <<rvars, cli, overflow_checks, m, sock, wire, recv_buffer, msg_length,
                   decoded, message, drawn, stdout, stderr>>

\* the frame render_app draws: the five layout lengths and the record rows
Frame(msg) ==
    [tag |-> "frame",
     lengths |-> <<TOP_BLOCK_SIZE, HEADER_BLOCK_SIZE,
                   AddU16(U16Val(QUESTION_BLOCK_SIZE), msg.header.qd_count).val,
                   AddU16(U16Val(MESSAGE_BLOCK_SIZE), msg.header.an_count).val,
                   STAT_BLOCK_SIZE>>,
     rows |-> Lines(msg.records)]

FrameOk(msg) ==
    /\ AddU16(U16Val(QUESTION_BLOCK_SIZE), msg.header.qd_count).ok
    /\ AddU16(U16Val(MESSAGE_BLOCK_SIZE), msg.header.an_count).ok

\* line 123 and 184-342: terminal.draw(|f| render_app(f, &message, &stats))
Draw ==
    /\ pc = "draw"
    /\ steps' = Append(steps, "draw")
    /\ IF ~FrameOk(message)
       THEN End("panic") /\ UNCHANGED drawn
       ELSE \/ drawn' = Frame(message) /\ pc' = "restore" /\ UNCHANGED exit
            \/ drawn' \in {drawn, Frame(message)} /\ End("Err: draw")
    /\ UNCHANGED <<rvars, cli, overflow_checks, m, sock, wire, recv_buffer, msg_length,
                   decoded, message, viewport, raw_mode, stdout, stderr>>

\* lines 124-125: disable_raw_mode and terminal.show_cursor
Restore ==
    /\ pc = "restore"
    /\ steps' = Append(steps, "restore")
    /\ \/ raw_mode' = FALSE /\ End("ok")
       \/ End("Err: failed to disable raw mode") /\ UNCHANGED raw_mode
    /\ UNCHANGED <<rvars, cli, overflow_checks, m, sock, wire, recv_buffer, msg_length,
                   decoded, message, viewport, drawn, stdout, stderr>>

Next ==
    \/ Build \/ Bind \/ Serialize \/ Send \/ Recv \/ Decode
    \/ PrintRecords \/ SetupTerminal \/ Draw \/ Restore

Spec == Init /\ [][Next]_vars

-----------------------------------------------------------------------------
(* Properties of the run of main, checked under Spec.                      *)

OrderRaw == <<"build", "bind", "serialize", "send", "recv", "decode", "print">>
OrderTui == <<"build", "bind", "serialize", "send", "recv", "decode",
              "setup", "draw", "restore">>

\* a label of more than 63 bytes: 64 bytes in a row without a '.'
LabelOver63(d) == \E i \in 1..(Len(d) - 63) : \A j \in i..(i + 63) : d[j] # 46

Rejected(d) == Len(d) > 255 \/ LabelOver63(d)

\* C4: when Message::deserialize fails, main returns that error and nothing
\* is rendered or printed afterwards: no decoded Message exists, the terminal
\* is never set up, no frame is drawn and no record line is printed.
C4_DecodeFailureIsTerminal ==
    decoded = "err" =>
      /\ pc = "done"
      /\ exit = "Err: Failed to deserialize response"
      /\ steps[Len(steps)] = "decode"
      /\ message.tag = "none"
      /\ viewport.tag = "none" /\ raw_mode = FALSE
      /\ drawn.tag = "none" /\ stdout = <<>>

\* the header and the question decode and a record of the response fails
C4_Witness ==
    /\ decoded = "err" /\ pc = "done"
    /\ parse_header(recv_buffer).val.an_count > 0
    /\ parse_question(Drop(recv_buffer, 12), recv_buffer).ok

\* C5: the steps of a run are build, (bind,) serialize, send, receive,
\* decode, present, each at most once and in that order; the query is sent
\* only after serialization succeeded, decoding starts only after a reply was
\* received, presentation only after decoding succeeded, and a failed step
\* ends the run.
C5_StepsInOrder ==
    /\ IsPrefix(steps, OrderRaw) \/ IsPrefix(steps, OrderTui)
    /\ exit # "running" <=> pc = "done"
    /\ InSeq("serialize", steps) => m.tag = "msg"
    /\ InSeq("send", steps) =>
          (sock = "bound" /\ Message_serialize(m).ok /\ wire = Message_serialize(m).val)
    /\ InSeq("recv", steps) => Len(recv_buffer) = 1024
    /\ InSeq("decode", steps) =>
          (msg_length > 0 /\ Take(recv_buffer, msg_length) \in Datagrams)
    /\ (InSeq("print", steps) \/ InSeq("setup", steps)) =>
          (decoded = "ok" /\ message.tag = "msg")
    /\ ~InSeq("decode", steps) => (decoded = "none" /\ message.tag = "none")
    /\ ~InSeq("recv", steps) => msg_length = 0
    /\ ~InSeq("serialize", steps) => wire = <<>>

C5_Witness ==
    /\ pc = "done" /\ exit = "ok"
    /\ steps = OrderTui
    /\ Len(message.records) = 2

\* C6: a name the validator rejects (over 255 bytes, checked first, or a
\* label over 63 bytes) ends the run with the message and status 1 before a
\* Message is built, the socket bound or anything serialized or sent; a query
\* is only ever built from a name the validator accepted.
C6_ValidatedBeforeBuild ==
    /\ m.tag = "msg" =>
          /\ cli.has_domain /\ ~Rejected(cli.domain)
          /\ m.question = [qname |-> cli.domain, qtype |-> QTypeOfCommand(cli.command),
                           qclass |-> "IN"]
    /\ (pc # "start" /\ cli.has_domain /\ Rejected(cli.domain)) =>
          /\ pc = "done" /\ exit = "exit(1)"
          /\ steps = <<"build">>
          /\ Len(stderr) = 1
          /\ stderr[1][1] = (IF Len(cli.domain) > 255 THEN "Address exceeds 255"
                             ELSE "Token exceeds 63")
          /\ m.tag = "none" /\ sock = "unbound" /\ wire = <<>>
          /\ recv_buffer = <<>>

\* a name that is both too long and has a label over 63 bytes
C6_Witness ==
    /\ pc = "done" /\ exit = "exit(1)"
    /\ cli.command = "mx"
    /\ Len(cli.domain) > 255 /\ LabelOver63(cli.domain)
    /\ stderr[1][1] = "Address exceeds 255"

\* C9: the decode reads exactly the msg_length bytes that recv_from returned:
\* its outcome is that of decoding the datagram alone, so a datagram cut short
\* inside a field or record is a decode failure.
C9_DecodesOnlyReceivedBytes ==
    decoded # "none" =>
      /\ (decoded = "ok") = Message_deserialize(Take(recv_buffer, msg_length)).ok
      /\ decoded = "ok" =>
            message = Message_deserialize(Take(recv_buffer, msg_length)).val

\* C10: for every response that decodes, the viewport height is the exact sum
\* 16 + qd_count + an_count and the layout lengths are 2 + qd_count and
\* 2 + an_count: no 16-bit addition overflows, panics or wraps.
C10_ViewportIsExactSum ==
    decoded = "ok" =>
      /\ exit # "panic"
      /\ viewport.tag = "inline" =>
            viewport.size = 16 + message.header.qd_count + message.header.an_count
      /\ drawn.tag = "frame" =>
            /\ drawn.lengths[3] = 2 + message.header.qd_count
            /\ drawn.lengths[4] = 2 + message.header.an_count

\* C11: on every path of main on which enable_raw_mode succeeded,
\* disable_raw_mode is called before main returns, also when creating the
\* Terminal or terminal.draw fails; in raw-records mode raw mode is never
\* enabled.
C11_RawModeRestored ==
    /\ (pc = "done" /\ raw_mode) => InSeq("restore", steps)
    /\ cli.raw => ~raw_mode

=============================================================================
